---------------------------- MODULE Spec2Model ----------------------------
(***************************************************************************)
(* Regime-aware trading strategy: signal sleeves, regime blender, position *)
(* sizer and back-test statistics, modelled from the Python sources.       *)
(*                                                                         *)
(* Floating-point numbers are modelled as exact rationals <<n, d>> with    *)
(* d > 0, extended with <<0, 0>> for NaN and <<1, 0>>, <<-1, 0>> for the   *)
(* infinities.  Each component has its own state variable (a record whose  *)
(* fields carry the names used in the source) and its own specification;   *)
(* a specification leaves the other components' variables idle.            *)
(***************************************************************************)
EXTENDS Integers, Sequences, FiniteSets, TLC

VARIABLES
    pairs,      \* signals/pairs.py: pairs_positions, one date at a time
    mom,        \* signals/momentum.py: momentum_zscores / momentum_positions
    blend,      \* strategy/regime_strategy.py: positions() blend loop
    sizer,      \* strategy/position_sizing.py: scale_weights, one date at a time
    stats,      \* backtest/metrics.py: summary_stats
    bt,         \* backtest/backtester.py: Backtester.run
    est,        \* strategy/regime_strategy.py: _estimate_high_regime_prob
    strat,      \* strategy/regime_strategy.py: positions() end to end
    ts,         \* signals/timeseries.py: timeseries_momentum
    load        \* signals/volatility.py: load_prices_and_vix

vars == <<pairs, mom, blend, sizer, stats, bt, est, strat, ts, load>>

Idle == [phase |-> "idle"]

-----------------------------------------------------------------------------
(* Extended rational arithmetic (IEEE-754 semantics of NaN and infinity).  *)

Abs(i) == IF i < 0 THEN -i ELSE i

Sign(i) == IF i > 0 THEN 1 ELSE IF i < 0 THEN -1 ELSE 0

RECURSIVE GCD(_, _)
GCD(a, b) == IF b = 0 THEN a ELSE GCD(b, a % b)

Norm(n, d) ==
    IF d = 0 THEN <<Sign(n), 0>>
    ELSE LET g == GCD(Abs(n), Abs(d))
             s == IF d < 0 THEN -1 ELSE 1
         IN  <<(s * n) \div g, (s * d) \div g>>

NaN == <<0, 0>>
Inf == <<1, 0>>
Zero == <<0, 1>>
One == <<1, 1>>

IsNaN(x) == x[1] = 0 /\ x[2] = 0
IsFinite(x) == x[2] # 0

RNeg(x) == <<-x[1], x[2]>>

RAbs(x) == <<Abs(x[1]), x[2]>>

RMul(x, y) ==
    LET g1 == GCD(Abs(x[1]), y[2])
        g2 == GCD(Abs(y[1]), x[2])
    IN  IF x[2] = 0 \/ y[2] = 0 THEN <<Sign(x[1] * y[1]), 0>>
        ELSE <<(x[1] \div g1) * (y[1] \div g2), (x[2] \div g2) * (y[2] \div g1)>>

RInv(x) == IF x[1] < 0 THEN <<-x[2], -x[1]>> ELSE <<x[2], x[1]>>

RDiv(x, y) == RMul(x, RInv(y))

RAdd(x, y) ==
    IF IsNaN(x) \/ IsNaN(y) THEN NaN
    ELSE IF x[2] = 0 /\ y[2] = 0 THEN (IF x[1] = y[1] THEN x ELSE NaN)
    ELSE IF x[2] = 0 THEN x
    ELSE IF y[2] = 0 THEN y
    ELSE LET g == GCD(x[2], y[2])
         IN  Norm(x[1] * (y[2] \div g) + y[1] * (x[2] \div g), (x[2] \div g) * y[2])

RSub(x, y) == RAdd(x, RNeg(y))

RECURSIVE FracCmp(_, _, _, _)
\* sign of a/b - c/d for b, d > 0, by continued fractions (no large products)
FracCmp(a, b, c, d) ==
    LET q1 == a \div b
        q2 == c \div d
        r1 == a - q1 * b
        r2 == c - q2 * d
    IN  IF q1 # q2 THEN Sign(q1 - q2)
        ELSE IF r1 = 0 \/ r2 = 0 THEN Sign(r1 - r2)
        ELSE FracCmp(d, r2, b, r1)

RLt(x, y) ==
    IF IsNaN(x) \/ IsNaN(y) THEN FALSE
    ELSE IF x[2] = 0 /\ y[2] = 0 THEN x[1] < y[1]
    ELSE IF x[2] = 0 THEN x[1] < 0
    ELSE IF y[2] = 0 THEN y[1] > 0
    ELSE FracCmp(x[1], x[2], y[1], y[2]) < 0

RLe(x, y) == ~IsNaN(x) /\ ~IsNaN(y) /\ ~RLt(y, x)

RGt(x, y) == RLt(y, x)

RGe(x, y) == RLe(y, x)

RMax(x, y) == IF RLt(x, y) THEN y ELSE x

RMin(x, y) == IF RLt(y, x) THEN y ELSE x

\* pandas clip(lower, upper): NaN stays NaN
RClip(x, lo, hi) == IF IsNaN(x) THEN NaN ELSE RMin(RMax(x, lo), hi)

\* pandas fillna(v)
FillNa(x, v) == IF IsNaN(x) THEN v ELSE x

RECURSIVE RSum(_, _)
RSum(f, S) ==
    IF S = {} THEN Zero
    ELSE LET a == CHOOSE a \in S : TRUE IN RAdd(f[a], RSum(f, S \ {a}))

RECURSIVE ISum(_, _)
ISum(f, S) ==
    IF S = {} THEN 0
    ELSE LET a == CHOOSE a \in S : TRUE IN f[a] + ISum(f, S \ {a})

-----------------------------------------------------------------------------
(* signals/pairs.py                                                        *)
(* z-scores are in hundredths; ZNaN stands for an undefined z-score (every *)
(* comparison with it is false); weights are in hundredths.                *)

PAIRS == <<<<"SPY", "QQQ">>, <<"XLE", "USO">>, <<"XLK", "QQQ">>>>
ENTRY_Z == 150
EXIT_Z == 25
STOP_Z == 300
LEG_WEIGHT == 35
ZNaN == 100000

\* z-scores fed to the pairs: the first pair sees every class of z-score and
\* every threshold value, the other pairs a coarser set.
ZFine == {ZNaN, -400, -300, -200, -150, -25, 0, 25, 100, 150, 200, 300, 400}
ZCoarse == {ZNaN, -200, 0, 200}
ZValues(i) == IF i = 1 THEN ZFine ELSE ZCoarse

PairUniverses ==
    { {"SPY", "QQQ", "XLE", "USO", "XLK", "TLT"},
      {"SPY", "QQQ", "XLK", "TLT"},
      {"SPY", "QQQ"},
      {"SPY", "XLE", "USO"},
      {"SPY", "TLT"} }

ZGt(z, c) == z # ZNaN /\ z > c
ZLt(z, c) == z # ZNaN /\ z < c
ZAbs(z) == IF z = ZNaN THEN ZNaN ELSE Abs(z)

\* a loop body without the stop-loss exit
PairStepNoStop(state, z) ==
    IF state = 0
    THEN IF ZGt(z, ENTRY_Z) THEN -1
         ELSE IF ZLt(z, -ENTRY_Z) THEN 1
         ELSE state
    ELSE IF ZLt(ZAbs(z), EXIT_Z) THEN 0
         ELSE state

\* a loop body that re-tests the entry conditions after leaving a position
PairStepReenter(state, z) ==
    LET s1 == IF state # 0 /\ (ZLt(ZAbs(z), EXIT_Z) \/ ZGt(ZAbs(z), STOP_Z))
              THEN 0 ELSE state
    IN  IF s1 = 0
        THEN IF ZGt(z, ENTRY_Z) THEN -1
             ELSE IF ZLt(z, -ENTRY_Z) THEN 1
             ELSE 0
        ELSE s1

\* one iteration of the loop body, lines 56-63
PairStep(state, z) ==
    IF state = 0
    THEN IF ZGt(z, ENTRY_Z) THEN -1
         ELSE IF ZLt(z, -ENTRY_Z) THEN 1
         ELSE state
    ELSE IF ZLt(ZAbs(z), EXIT_Z) \/ ZGt(ZAbs(z), STOP_Z) THEN 0
         ELSE state

\* the pair's row of pair_pos on one date, lines 65-70
PairRow(cols, i, state) ==
    [c \in cols |->
        IF state = 1
        THEN (IF c = PAIRS[i][2] THEN -LEG_WEIGHT
              ELSE IF c = PAIRS[i][1] THEN LEG_WEIGHT ELSE 0)
        ELSE IF state = -1
        THEN (IF c = PAIRS[i][2] THEN LEG_WEIGHT
              ELSE IF c = PAIRS[i][1] THEN -LEG_WEIGHT ELSE 0)
        ELSE 0]

\* line 44: a pair with a missing leg is skipped
PairTraded(cols, i) == PAIRS[i][1] \in cols /\ PAIRS[i][2] \in cols

\* a panel in which each pair assigns its legs instead of adding them
PairsPosRowOverwrite(cols, state) ==
    [c \in cols |->
        LET touching == {i \in DOMAIN PAIRS :
                            PairTraded(cols, i) /\ PairRow(cols, i, state[i])[c] # 0}
        IN  IF touching = {} THEN 0
            ELSE LET last == CHOOSE i \in touching : \A j \in touching : j <= i
                 IN  PairRow(cols, last, state[last])[c]]

\* pos = pos.add(pair_pos), line 72, restricted to one date
PairsPosRow(cols, state) ==
    [c \in cols |->
        ISum([i \in DOMAIN PAIRS |->
                 IF PairTraded(cols, i) THEN PairRow(cols, i, state[i])[c] ELSE 0],
             DOMAIN PAIRS)]

\* the z-scores a pair can show on one date
ZSet(cols, i) == IF PairTraded(cols, i) THEN ZValues(i) ELSE {ZNaN}

PairsInit ==
    \E cols \in PairUniverses :
        pairs = [phase |-> "start", cols |-> cols,
                 z |-> [i \in DOMAIN PAIRS |-> ZNaN],
                 prev |-> [i \in DOMAIN PAIRS |-> 0],
                 state |-> [i \in DOMAIN PAIRS |-> 0],
                 pos |-> [c \in cols |-> 0]]

\* One date of pairs_positions: every traded pair reads its z-score of the
\* date, advances its state and writes its legs; the rows are added up.
PairsDay ==
    /\ pairs.phase \in {"start", "day"}
    /\ \E z1 \in ZSet(pairs.cols, 1), z2 \in ZSet(pairs.cols, 2),
          z3 \in ZSet(pairs.cols, 3) :
            LET z == <<z1, z2, z3>>
                st == [i \in DOMAIN PAIRS |->
                          IF PairTraded(pairs.cols, i)
                          THEN PairStep(pairs.state[i], z[i]) ELSE 0]
            IN  pairs' = [phase |-> "day", cols |-> pairs.cols, z |-> z,
                          prev |-> pairs.state, state |-> st,
                          pos |-> PairsPosRow(pairs.cols, st)]
    /\ UNCHANGED <<mom, blend, sizer, stats, bt, est, strat, ts, load>>

InitPairs ==
    /\ PairsInit
    /\ mom = Idle /\ blend = Idle /\ sizer = Idle /\ stats = Idle
    /\ bt = Idle /\ est = Idle /\ strat = Idle /\ ts = Idle /\ load = Idle

NextPairs == PairsDay

SpecPairs == InitPairs /\ [][NextPairs]_vars

\* C2: on consecutive dates a pair never goes from LongSpread (1) straight to
\* ShortSpread (-1) or back, whatever the z-scores (undefined ones included);
\* hence a Flat date lies between any LongSpread date and any later
\* ShortSpread date.
C2_NoDirectFlip ==
    pairs.phase = "day" =>
        \A i \in DOMAIN PAIRS : pairs.prev[i] * pairs.state[i] # -1

\* a pair held long meets a z-score beyond both the short entry and the stop
C2_Witness ==
    /\ pairs.phase = "day"
    /\ pairs.prev[1] = 1 /\ pairs.z[1] = 400 /\ pairs.state[1] = 0

\* C3: on every date the weights of pairs_positions sum to 0 across assets
\* (within 1e-6, i.e. 1e-4 hundredths), also for an asset in several pairs.
C3_DollarNeutral ==
    pairs.phase = "day" => Abs(ISum(pairs.pos, pairs.cols)) * 10000 < 1

\* QQQ is the short leg of two long spreads at once
C3_Witness ==
    /\ pairs.phase = "day" /\ "QQQ" \in pairs.cols
    /\ pairs.state[1] = 1 /\ pairs.state[3] = 1
    /\ pairs.pos["QQQ"] = -2 * LEG_WEIGHT

\* C11: on every date each traded pair moves by the stated transitions
\* (Flat: z > 1.5 to ShortSpread, z < -1.5 to LongSpread, else Flat; in a
\* spread: |z| < 0.25 or |z| > 3.0 to Flat, else held) and the panel row is
\* the sum over the pairs of +0.35 on A, -0.35 on B in LongSpread, the
\* reverse in ShortSpread and zero in Flat.
C11_Transitions ==
    pairs.phase = "day" =>
        /\ \A i \in DOMAIN PAIRS :
              PairTraded(pairs.cols, i) =>
                 LET z == pairs.z[i]
                     p == pairs.prev[i]
                     s == pairs.state[i]
                     defined == z # ZNaN
                     exit == defined /\ (Abs(z) < 25 \/ Abs(z) > 300)
                 IN  /\ (p = 0 /\ defined /\ z > 150) => s = -1
                     /\ (p = 0 /\ defined /\ z < -150) => s = 1
                     /\ (p = 0 /\ ~(defined /\ z > 150) /\ ~(defined /\ z < -150)) => s = 0
                     /\ (p # 0 /\ exit) => s = 0
                     /\ (p # 0 /\ ~exit) => s = p
        /\ \A c \in pairs.cols :
              pairs.pos[c] =
                 ISum([i \in DOMAIN PAIRS |->
                          IF ~PairTraded(pairs.cols, i) THEN 0
                          ELSE IF c = PAIRS[i][1] THEN 35 * pairs.state[i]
                          ELSE IF c = PAIRS[i][2] THEN -35 * pairs.state[i]
                          ELSE 0], DOMAIN PAIRS)

\* a long spread stopped out by z = 4.0: both legs go to zero
C11_Witness ==
    /\ pairs.phase = "day" /\ pairs.cols = {"SPY", "QQQ"}
    /\ pairs.prev[1] = 1 /\ pairs.z[1] = 400 /\ pairs.state[1] = 0
    /\ pairs.pos["SPY"] = 0 /\ pairs.pos["QQQ"] = 0

-----------------------------------------------------------------------------
(* signals/momentum.py                                                     *)
(* One date of the panel.  A z-score z is carried as its signed square     *)
(* sign(z) * z^2, an exact rational; the map is strictly increasing, so    *)
(* ranks, ties and the clip to [-5, 5] (here [-25, 25]) are preserved.     *)

LOOKBACK == 126
PCT_NUM == 3
PCT_DEN == 10

MaxAssets == 7
MomPrices == {1, 2}

\* prices.pct_change(LOOKBACK) on one date: undefined in the first LOOKBACK rows
PctChange(now, past, defined) ==
    IF defined THEN RSub(RDiv(<<now, 1>>, <<past, 1>>), One) ELSE NaN

\* DataFrame.mean(axis=1): NaN entries are skipped, NaN if none is left
RowMean(row) ==
    LET ok == {i \in DOMAIN row : ~IsNaN(row[i])}
    IN  IF ok = {} THEN NaN
        ELSE RDiv(RSum(row, ok), <<Cardinality(ok), 1>>)

\* square of DataFrame.std(axis=1) (ddof = 1): NaN with fewer than two values
RowVar(row) ==
    LET ok == {i \in DOMAIN row : ~IsNaN(row[i])}
        m == RowMean(row)
        sq == [i \in ok |-> RMul(RSub(row[i], m), RSub(row[i], m))]
    IN  IF Cardinality(ok) < 2 THEN NaN
        ELSE RDiv(RSum(sq, ok), <<Cardinality(ok) - 1, 1>>)

\* momentum_zscores on one date, lines 21-25, as signed squares
MomentumZscores(six_m_ret) ==
    LET mean == RowMean(six_m_ret)
        var0 == RowVar(six_m_ret)
        var == IF var0 = Zero THEN NaN ELSE var0          \* .replace(0, np.nan)
        z == [i \in DOMAIN six_m_ret |->
                LET dev == RSub(six_m_ret[i], mean)
                    sq == RDiv(RMul(dev, dev), var)
                IN  IF RLt(dev, Zero) THEN RNeg(sq) ELSE sq]
    IN  [i \in DOMAIN six_m_ret |-> RClip(FillNa(z[i], Zero), <<-25, 1>>, <<25, 1>>)]

\* rank(axis=1, ascending=False, method="min"): ties share the lowest rank
RankMin(z, i) == 1 + Cardinality({j \in DOMAIN z : RGt(z[j], z[i])})

\* rank(axis=1, ascending=False, method="first"), line 36: ties are ranked
\* in column order
RankFirst(z, i) ==
    1 + Cardinality({j \in DOMAIN z : RGt(z[j], z[i])})
      + Cardinality({j \in DOMAIN z : j < i /\ z[j] = z[i]})

\* k = max(1, int(PCT * n_assets)), line 34
MomK(n) == IF (PCT_NUM * n) \div PCT_DEN < 1 THEN 1 ELSE (PCT_NUM * n) \div PCT_DEN

\* momentum_positions on one date, lines 33-44
MomentumPositions(z) ==
    LET n == Len(z)
        k == MomK(n)
        w_long == <<1, 2 * k>>
        w_short == <<-1, 2 * k>>
    IN  [i \in DOMAIN z |->
            RAdd(IF RankFirst(z, i) <= k THEN w_long ELSE Zero,
                 IF RankFirst(z, i) >= n - k + 1 THEN w_short ELSE Zero)]

MomInit ==
    \E n \in 1..MaxAssets :
      \E now \in [1..n -> MomPrices], past \in [1..n -> MomPrices],
         defined \in BOOLEAN :
        /\ ~defined => past = [i \in 1..n |-> 1]
        /\ mom = [phase |-> "prices", n |-> n,
                  six_m_ret |-> [i \in 1..n |-> PctChange(now[i], past[i], defined)],
                  z |-> <<>>, pos |-> <<>>]

\* momentum_positions(momentum_zscores(prices)) on the date
MomentumSignal ==
    /\ mom.phase = "prices"
    /\ LET z == MomentumZscores(mom.six_m_ret)
       IN  mom' = [mom EXCEPT !.phase = "done", !.z = z,
                              !.pos = MomentumPositions(z)]
    /\ UNCHANGED <<pairs, blend, sizer, stats, bt, est, strat, ts, load>>

InitMom ==
    /\ MomInit
    /\ pairs = Idle /\ blend = Idle /\ sizer = Idle /\ stats = Idle
    /\ bt = Idle /\ est = Idle /\ strat = Idle /\ ts = Idle /\ load = Idle

NextMom == MomentumSignal

SpecMom == InitMom /\ [][NextMom]_vars

MomSum(S) == RSum(mom.pos, S)
MomLongs == {i \in DOMAIN mom.pos : RGt(mom.pos[i], Zero)}
MomShorts == {i \in DOMAIN mom.pos : RLt(mom.pos[i], Zero)}

-----------------------------------------------------------------------------
(* strategy/regime_strategy.py: the regime blend of positions()            *)

LOW == "low_vol"
MEDIUM == "medium_vol"
HIGH == "high_vol"

Q(n, d) == Norm(n, d)

\* raw probabilities _prob_high can take on a date (already within [0, 1])
ProbGrid == {Q(0, 1), Q(1, 4), Q(1, 2), Q(3, 4), Q(1, 1)}

MaxBlendDays == 4

\* __init__, lines 55-62: the regime label is thresholded on _prob_high
RegimeOf(p) ==
    IF RGt(p, Q(6, 10)) THEN HIGH
    ELSE IF RLt(p, Q(25, 100)) THEN LOW
    ELSE MEDIUM

\* ewm(span=5, adjust=False).mean(): alpha = 2 / (span + 1), y0 = x0
EwmSpan == 5
Ewm(prev, x, first) ==
    IF first THEN x
    ELSE RAdd(RMul(Q(EwmSpan - 1, EwmSpan + 1), prev), RMul(Q(2, EwmSpan + 1), x))

\* confidence = (prob_high - 0.5).abs() * 2.0, line 131
Confidence(p) == RMul(RAbs(RSub(p, Q(1, 2))), Q(2, 1))

BaseWeights(regime) ==
    IF regime = LOW
    THEN [momentum |-> Q(55, 100), pairs |-> Q(15, 100),
          timeseries |-> Q(20, 100), defensive |-> Q(10, 100)]
    ELSE IF regime = HIGH
    THEN [momentum |-> Q(5, 100), pairs |-> Q(20, 100),
          timeseries |-> Q(15, 100), defensive |-> Q(60, 100)]
    ELSE [momentum |-> Q(30, 100), pairs |-> Q(20, 100),
          timeseries |-> Q(25, 100), defensive |-> Q(25, 100)]

Sleeves == {"momentum", "pairs", "timeseries", "defensive"}

\* _regime_mix up to (not including) the normalisation, lines 183-206
RegimeMixRaw(regime, prob_high, confidence) ==
    LET base == BaseWeights(regime)
        uncertainty == RSub(One, confidence)
        def1 == RAdd(base.defensive,
                     RAdd(RMul(Q(25, 100), uncertainty), RMul(Q(35, 100), prob_high)))
        mom1 == RMul(base.momentum,
                     RMax(Zero, RSub(One, RMul(Q(7, 10), prob_high))))
    IN  IF regime = MEDIUM
        THEN [momentum |-> RMul(mom1, RAdd(Q(1, 2), RMul(Q(1, 2), confidence))),
              pairs |-> RMul(base.pairs, RAdd(Q(7, 10), RMul(Q(3, 10), prob_high))),
              timeseries |-> base.timeseries,
              defensive |-> RAdd(def1, Q(1, 10))]
        ELSE IF regime = HIGH
        THEN [momentum |-> Zero,
              pairs |-> RMul(base.pairs, RAdd(Q(8, 10), RMul(Q(4, 10), prob_high))),
              timeseries |-> RMul(base.timeseries,
                                  RAdd(Q(6, 10), RMul(Q(4, 10), confidence))),
              defensive |-> def1]
        ELSE [momentum |-> mom1,
              pairs |-> RMul(base.pairs, RAdd(Q(1, 2), RMul(Q(1, 2), prob_high))),
              timeseries |-> RMul(base.timeseries,
                                  RAdd(Q(8, 10), RMul(Q(2, 10), confidence))),
              defensive |-> RAdd(def1, RMul(Q(5, 100), uncertainty))]

\* a blend that floors the fractions but does not divide by their total
RegimeMixNoNorm(regime, prob_high, confidence) ==
    LET mix == RegimeMixRaw(regime, prob_high, confidence)
    IN  [k \in Sleeves |-> RMax(Zero, mix[k])]

\* _regime_mix, lines 181-212
RegimeMix(regime, prob_high, confidence) ==
    LET mix == RegimeMixRaw(regime, prob_high, confidence)
        total == RSum(mix, Sleeves)
    IN  IF RLe(total, Zero)
        THEN [momentum |-> Zero, pairs |-> Zero, timeseries |-> Zero,
              defensive |-> One]
        ELSE [k \in Sleeves |-> RDiv(RMax(Zero, mix[k]), total)]

BlendInit == blend = [phase |-> "start", t |-> 0]

\* One date of the loop of positions(), lines 129-150: the smoothed
\* probability, its confidence, the regime label of the date and the mix.
BlendDay ==
    /\ blend.phase \in {"start", "day"}
    /\ blend.t < MaxBlendDays
    /\ \E raw \in ProbGrid :
         LET p == RClip(Ewm(IF blend.phase = "start" THEN Zero ELSE blend.prob_high,
                            raw, blend.phase = "start"), Zero, One)
             conf == Confidence(p)
             regime == RegimeOf(raw)
         IN  blend' = [phase |-> "day", t |-> blend.t + 1, prob_raw |-> raw,
                       prob_high |-> p, confidence |-> conf, regime |-> regime,
                       mix |-> RegimeMix(regime, p, conf)]
    /\ UNCHANGED <<pairs, mom, sizer, stats, bt, est, strat, ts, load>>

InitBlend ==
    /\ BlendInit
    /\ pairs = Idle /\ mom = Idle /\ sizer = Idle /\ stats = Idle
    /\ bt = Idle /\ est = Idle /\ strat = Idle /\ ts = Idle /\ load = Idle

NextBlend == BlendDay

SpecBlend == InitBlend /\ [][NextBlend]_vars

\* C5: on every date of positions() the four mix fractions of _regime_mix are
\* non-negative and sum to exactly 1, for every regime label and smoothed
\* probability in [0, 1] with confidence 2 * |p - 0.5|.
C5_MixIsDistribution ==
    blend.phase = "day" =>
        /\ \A k \in Sleeves : RGe(blend.mix[k], Zero)
        /\ RSum(blend.mix, Sleeves) = One

\* a High-regime date whose smoothed probability is still below one half
C5_Witness ==
    /\ blend.phase = "day" /\ blend.regime = HIGH
    /\ RLt(blend.prob_high, Q(1, 2))
    /\ blend.confidence = Confidence(blend.prob_high)
    /\ blend.mix.momentum = Zero /\ RGt(blend.mix.defensive, Q(1, 2))

\* C13 as stated: on every date the regime label that selects the base mix
\* and the adjustments is the discretisation of the smoothed probability of
\* that date (High if p > 0.6, Low if p < 0.25, otherwise Medium).
C13_Original ==
    blend.phase = "day" => blend.regime = RegimeOf(blend.prob_high)

-----------------------------------------------------------------------------
(* backtest/metrics.py                                                     *)
(* A return series is a record [none, values]: none is TRUE for None, and  *)
(* values is a sequence of rationals (NaN allowed).  CAGR = cumulative ** (252 / n) - 1 is irrational in   *)
(* general and is carried as its base and exponent; Sharpe, which is       *)
(* sqrt(252) * mean / sqrt(variance), is carried as its mean and variance. *)

TRADING_DAYS == 252

NoSeries == [none |-> TRUE, values |-> <<>>]
Series(v) == [none |-> FALSE, values |-> v]

RECURSIVE CumProd(_, _)
\* (1 + clean).cumprod() up to position t
CumProd(clean, t) ==
    IF t = 0 THEN One ELSE RMul(CumProd(clean, t - 1), RAdd(One, clean[t]))

RECURSIVE CumMax(_, _)
\* equity.cummax() at position t >= 1
CumMax(equity, t) ==
    IF t = 1 THEN equity[1] ELSE RMax(CumMax(equity, t - 1), equity[t])

\* Series.min(): NaN entries are skipped, NaN if none is left
SeriesMin(x) ==
    LET ok == {t \in DOMAIN x : ~IsNaN(x[t])}
    IN  IF ok = {} THEN NaN
        ELSE x[CHOOSE t \in ok : \A u \in ok : RLe(x[t], x[u])]

\* a drawdown that forgets the "- 1"
MaxDrawdownNoMinusOne(clean) ==
    LET equity == [t \in DOMAIN clean |-> CumProd(clean, t)]
    IN  SeriesMin([t \in DOMAIN clean |-> RDiv(equity[t], CumMax(equity, t))])

\* lines 30-31: (equity / equity.cummax() - 1).min()
MaxDrawdown(clean) ==
    LET equity == [t \in DOMAIN clean |-> CumProd(clean, t)]
    IN  SeriesMin([t \in DOMAIN clean |->
                      RSub(RDiv(equity[t], CumMax(equity, t)), One)])

NaNCagr == [nan |-> TRUE, base |-> Zero, days |-> TRADING_DAYS, periods |-> 0]

\* a CAGR guard that lets a zero cumulative product through
CagrGuardGe(cumulative, n) ==
    IF RGe(cumulative, Zero)
    THEN [nan |-> FALSE, base |-> cumulative, days |-> TRADING_DAYS, periods |-> n]
    ELSE NaNCagr

\* lines 18-22: base ** (days / periods) - 1, or NaN
Cagr(cumulative, n) ==
    IF RGt(cumulative, Zero)
    THEN [nan |-> FALSE, base |-> cumulative, days |-> TRADING_DAYS, periods |-> n]
    ELSE NaNCagr

\* sign of a CAGR: x ** (252 / n) - 1 has the sign of x - 1 for x > 0
CagrSign(c) == Sign(c.base[1] - c.base[2])

\* clean.std(ddof=0) squared
PopVar(clean) ==
    LET n == Len(clean)
        mean == RDiv(RSum(clean, DOMAIN clean), <<n, 1>>)
        sq == [t \in DOMAIN clean |-> RMul(RSub(clean[t], mean), RSub(clean[t], mean))]
    IN  RDiv(RSum(sq, DOMAIN clean), <<n, 1>>)

\* np.isclose(volatility, 0.0): volatility <= 1e-8, i.e. variance <= 1e-16
VolIsCloseToZero(var) ==
    var[1] = 0 \/ (var[2] \div var[1]) \div 100000000 >= 100000000

NaNSharpe == [nan |-> TRUE, mean |-> Zero, var |-> Zero]

\* lines 24-28: sqrt(TRADING_DAYS) * mean / sqrt(var), or NaN
Sharpe(clean) ==
    LET mean == RDiv(RSum(clean, DOMAIN clean), <<Len(clean), 1>>)
        var == PopVar(clean)
    IN  IF var # Zero /\ ~VolIsCloseToZero(var)
        THEN [nan |-> FALSE, mean |-> mean, var |-> var]
        ELSE NaNSharpe

\* summary_stats, lines 9-33
SummaryStats(returns) ==
    IF returns.none \/ Len(returns.values) = 0
    THEN [CAGR |-> NaNCagr, Sharpe |-> NaNSharpe, MaxDD |-> NaN]
    ELSE LET clean == [t \in DOMAIN returns.values |->
                          FillNa(returns.values[t], Zero)]
         IN  [CAGR |-> Cagr(CumProd(clean, Len(clean)), Len(clean)),
              Sharpe |-> Sharpe(clean),
              MaxDD |-> MaxDrawdown(clean)]

MaxLen == 3
StatReturns == {NaN, Q(-2, 1), Q(-1, 1), Q(-1, 2), Zero, Q(1, 2), One}

SeqsUpTo(S, n) == UNION {[1..k -> S] : k \in 0..n}

StatsInit ==
    \E r \in {Series(v) : v \in SeqsUpTo(StatReturns, MaxLen)} \cup {NoSeries} :
        stats = [phase |-> "input", returns |-> r]

SummaryStatsCall ==
    /\ stats.phase = "input"
    /\ stats' = [phase |-> "done", returns |-> stats.returns,
                 out |-> SummaryStats(stats.returns)]
    /\ UNCHANGED <<pairs, mom, blend, sizer, bt, est, strat, ts, load>>

InitStats ==
    /\ StatsInit
    /\ pairs = Idle /\ mom = Idle /\ blend = Idle /\ sizer = Idle
    /\ bt = Idle /\ est = Idle /\ strat = Idle /\ ts = Idle /\ load = Idle

NextStats == SummaryStatsCall

SpecStats == InitStats /\ [][NextStats]_vars

StatsNonEmpty == ~stats.returns.none /\ Len(stats.returns.values) > 0

\* the series with NaN read as 0
StatsClean ==
    [t \in DOMAIN stats.returns.values |-> FillNa(stats.returns.values[t], Zero)]

\* C8 as stated: for every non-empty return series (returns at or below
\* -100% included) the reported MaxDD is defined and <= 0.
C8_Original ==
    (stats.phase = "done" /\ StatsNonEmpty) =>
        ~IsNaN(stats.out.MaxDD) /\ RLe(stats.out.MaxDD, Zero)

\* the product of (1 + r) over the series with NaN read as 0
StatsCumulative == CumProd(StatsClean, Len(StatsClean))

\* C10: a None or empty series yields (NaN, NaN, NaN); otherwise CAGR is NaN
\* exactly when the cumulative product of (1 + return) is non-positive, and
\* Sharpe is NaN whenever the volatility of the returns is zero.
C10_DegenerateStats ==
    stats.phase = "done" =>
        /\ ~StatsNonEmpty =>
              stats.out.CAGR.nan /\ stats.out.Sharpe.nan /\ IsNaN(stats.out.MaxDD)
        /\ StatsNonEmpty =>
              /\ stats.out.CAGR.nan <=> RLe(StatsCumulative, Zero)
              /\ (\A t \in DOMAIN StatsClean : StatsClean[t] = StatsClean[1])
                 => stats.out.Sharpe.nan

\* a constant series of -100% returns: the product is 0 and the volatility 0
C10_Witness ==
    /\ stats.phase = "done" /\ StatsNonEmpty
    /\ Len(stats.returns.values) = 2
    /\ \A t \in DOMAIN StatsClean : stats.returns.values[t] = Q(-1, 1)
    /\ stats.out.CAGR.nan /\ stats.out.Sharpe.nan

-----------------------------------------------------------------------------
(* backtest/backtester.py                                                  *)
(* A panel is a sequence of rows, one per date; a row maps assets to       *)
(* rationals.                                                              *)

MaxBtDays == 2
BtAssets == {"SPY", "TLT"}
BtPrices == {1, 2}
BtWeights == {Q(-1, 1), Zero, One}

\* prices.pct_change().fillna(0): row t of the simple returns
SimpleReturns(prices, t) ==
    [a \in DOMAIN prices[t] |->
        IF t = 1 THEN Zero
        ELSE FillNa(RSub(RDiv(<<prices[t][a], 1>>, <<prices[t - 1][a], 1>>), One), Zero)]

\* a gross return earned on the weights of the same date (no shift)
GrossReturnNoShift(prices, weights, t) ==
    LET r == SimpleReturns(prices, t)
    IN  RSum([a \in DOMAIN r |-> RMul(weights[t][a], r[a])], DOMAIN r)

\* (weights.shift().fillna(0) * r).sum(axis=1) on date t, line 21
GrossReturn(prices, weights, t) ==
    LET r == SimpleReturns(prices, t)
    IN  RSum([a \in DOMAIN r |->
                 RMul(IF t = 1 THEN Zero ELSE weights[t - 1][a], r[a])],
             DOMAIN r)

\* a turnover that counts the first row as a change from zero weights
TurnoverFromZero(weights, t) ==
    RSum([a \in DOMAIN weights[t] |->
             RAbs(RSub(weights[t][a], IF t = 1 THEN Zero ELSE weights[t - 1][a]))],
         DOMAIN weights[t])

\* weights.diff().abs().sum(axis=1) on date t, line 23: the first row of the
\* difference is NaN and is skipped by the sum
Turnover(weights, t) ==
    IF t = 1 THEN Zero
    ELSE RSum([a \in DOMAIN weights[t] |->
                  RAbs(RSub(weights[t][a], weights[t - 1][a]))],
              DOMAIN weights[t])

\* Backtester._pnl, lines 19-25
Pnl(prices, weights) ==
    [t \in DOMAIN weights |->
        RSub(GrossReturn(prices, weights, t),
             RMul(Turnover(weights, t), Q(1, 1000)))]

BtInit ==
    \E T \in 1..MaxBtDays :
      \E prices \in [1..T -> [BtAssets -> BtPrices]],
         weights \in [1..T -> [BtAssets -> BtWeights]] :
        bt = [phase |-> "ready", prices |-> prices, weights |-> weights]

\* Backtester.run, lines 29-32, with w the panel strategy.positions() returned
BtRun ==
    /\ bt.phase = "ready"
    /\ LET returns == Pnl(bt.prices, bt.weights)
       IN  bt' = [phase |-> "done", prices |-> bt.prices, weights |-> bt.weights,
                  gross |-> [t \in DOMAIN bt.weights |->
                                GrossReturn(bt.prices, bt.weights, t)],
                  returns |-> returns, out |-> SummaryStats(Series(returns))]
    /\ UNCHANGED <<pairs, mom, blend, sizer, stats, est, strat, ts, load>>

InitBt ==
    /\ BtInit
    /\ pairs = Idle /\ mom = Idle /\ blend = Idle /\ sizer = Idle
    /\ stats = Idle /\ est = Idle /\ strat = Idle /\ ts = Idle /\ load = Idle

NextBt == BtRun

SpecBt == InitBt /\ [][NextBt]_vars

BtAllZeroWeights ==
    \A t \in DOMAIN bt.weights : \A a \in BtAssets : bt.weights[t][a] = Zero

\* C7: with an all-zero weight panel the back-test reports CAGR = 0,
\* Sharpe = NaN and MaxDD = 0, whatever the (non-empty) price panel.
C7_ZeroWeights ==
    (bt.phase = "done" /\ BtAllZeroWeights) =>
        /\ ~bt.out.CAGR.nan /\ CagrSign(bt.out.CAGR) = 0
        /\ bt.out.Sharpe.nan
        /\ bt.out.MaxDD = Zero

\* two dates of moving prices and no position
C7_Witness ==
    /\ bt.phase = "done" /\ BtAllZeroWeights
    /\ Len(bt.prices) = 2
    /\ bt.prices[1]["SPY"] = 2 /\ bt.prices[2]["SPY"] = 1

\* C17: on every date t after the first the net return is the sum over the
\* assets of (weight of t-1 times simple return of t) minus 0.001 times the
\* sum of |weight of t - weight of t-1|, and the gross return of t is the
\* same whatever the weights of date t (and of later dates) are.
C17_NetReturn ==
    bt.phase = "done" =>
        \A t \in DOMAIN bt.returns :
            t >= 2 =>
                LET ret == [a \in BtAssets |->
                               RSub(RDiv(<<bt.prices[t][a], 1>>,
                                         <<bt.prices[t - 1][a], 1>>), One)]
                    earned == RSum([a \in BtAssets |->
                                       RMul(bt.weights[t - 1][a], ret[a])], BtAssets)
                    traded == RSum([a \in BtAssets |->
                                       RAbs(RSub(bt.weights[t][a],
                                                 bt.weights[t - 1][a]))], BtAssets)
                IN  /\ bt.returns[t] = RSub(earned, RMul(Q(1, 1000), traded))
                    /\ bt.gross[t] = earned
                    /\ \A row \in [BtAssets -> BtWeights] :
                          GrossReturn(bt.prices, [bt.weights EXCEPT ![t] = row], t)
                              = bt.gross[t]

\* SPY doubles while held long and the position is reversed on that date
C17_Witness ==
    /\ bt.phase = "done" /\ Len(bt.weights) >= 2
    /\ bt.weights[1]["SPY"] = One /\ bt.weights[2]["SPY"] = Q(-1, 1)
    /\ bt.prices[1]["SPY"] = 1 /\ bt.prices[2]["SPY"] = 2
    /\ bt.weights[1]["TLT"] = Zero /\ bt.weights[2]["TLT"] = Zero
    /\ bt.returns[2] = Q(998, 1000)

\* C20: the net return of the first date is exactly 0 for every weight
\* panel, and the cost deducted on any date is 0.001 times the change from
\* the previous date's weights only, so entering the first-date weights is
\* never charged.
C20_FirstDateFree ==
    bt.phase = "done" =>
        /\ bt.returns[1] = Zero
        /\ \A t \in DOMAIN bt.returns :
              RSub(bt.gross[t], bt.returns[t]) =
                 (IF t = 1 THEN Zero
                  ELSE RMul(Q(1, 1000),
                            RSum([a \in BtAssets |->
                                     RAbs(RSub(bt.weights[t][a],
                                               bt.weights[t - 1][a]))], BtAssets)))

\* a panel that starts fully invested and never trades: no cost on any date
C20_Witness ==
    /\ bt.phase = "done" /\ Len(bt.weights) >= 2
    /\ bt.weights[1]["SPY"] = One /\ bt.weights[2] = bt.weights[1]
    /\ bt.returns[1] = Zero /\ bt.returns[2] = bt.gross[2]

-----------------------------------------------------------------------------
(* strategy/position_sizing.py                                             *)
(* scale_weights is vectorised over the dates; every quantity of date t    *)
(* depends on the rows up to t only, so it is computed here one date at a  *)
(* time.  A volatility is carried as its square (the variance), and the    *)
(* volatility scale and the scaled weights as their (signed) squares.      *)

TARGET_VOL == Q(6, 100)
SCALER_CAP == Q(27, 10)
DD_START == Q(-5, 100)
DD_CUTOFF == Q(-25, 100)
DD_CRASH == Q(-12, 100)
COOLDOWN == 5

\* rolling window of the volatility estimate: 20 in the source (ROLL),
\* shortened here so that full windows occur within MaxSizerDays dates
ROLL == 2
MaxSizerDays == 7

SizerAssets == {"SPY"}
SizerPrices == {4, 5}
SizerWeights == {Q(-1, 2), Zero, Q(1, 2)}

Sq(x) == RMul(x, x)

\* signed square: sign(x) * x^2
SSq(x) == IF RLt(x, Zero) THEN RNeg(Sq(x)) ELSE Sq(x)

\* the last n entries of a sequence
LastN(w, n) == IF Len(w) <= n THEN w ELSE SubSeq(w, Len(w) - n + 1, Len(w))

\* Series.rolling(ROLL).std() squared, on the window ending at the date
RollingVar(win) == IF Len(win) < ROLL THEN NaN ELSE RowVar(win)

\* a volatility scale without the clip
VolScalerNoClip(target, cap, vol) ==
    LET v == IF vol = Zero THEN NaN ELSE vol
    IN  FillNa(RDiv(target, v), One)

\* lines 27-28: target / effective_vol.replace(0, nan), clipped above at the
\* cap, NaN filled with 1.0.  Squaring is increasing on non-negative numbers
\* and keeps 0, 1 and NaN, so the same computation serves the volatility
\* (target, cap) and the variance (target^2, cap^2).
VolScalerOf(target, cap, vol) ==
    LET v == IF vol = Zero THEN NaN ELSE vol
        sc == RDiv(target, v)
    IN  FillNa(IF IsNaN(sc) THEN NaN ELSE RMin(sc, cap), One)

\* the volatility scale from the effective volatility
VolScaler(effective_vol) == VolScalerOf(TARGET_VOL, SCALER_CAP, effective_vol)

\* the square of the volatility scale from the effective variance
VolScaler2(effective_var) == VolScalerOf(Sq(TARGET_VOL), Sq(SCALER_CAP), effective_var)

\* lines 34-37: the drawdown multiplier before the cooldown
DdScaler(drawdown) ==
    LET lin == RClip(RDiv(RSub(drawdown, DD_CUTOFF), RSub(DD_START, DD_CUTOFF)),
                     Zero, One)
    IN  FillNa(IF RLe(drawdown, DD_START) THEN lin ELSE One, One)

\* a cooldown that looks at the earlier dates of the window only
CooldownLagged(crash_win) ==
    IF \E i \in DOMAIN crash_win : i < Len(crash_win) /\ crash_win[i] = 1 THEN 1 ELSE 0

\* lines 39-40: crash.rolling(5, min_periods=1).max() over the last flags
Cooldown(crash_win) ==
    IF \E i \in DOMAIN crash_win : crash_win[i] = 1 THEN 1 ELSE 0

SizerInit == sizer = [phase |-> "start", t |-> 0]

\* One date of scale_weights, lines 20-45.
SizerDay ==
    /\ sizer.phase \in {"start", "day"}
    /\ sizer.t < MaxSizerDays
    /\ \E prices \in [SizerAssets -> SizerPrices],
          raw \in [SizerAssets -> SizerWeights] :
        LET first == sizer.phase = "start"
            returns == [a \in SizerAssets |->
                           IF first THEN Zero
                           ELSE FillNa(RSub(RDiv(<<prices[a], 1>>,
                                                 <<sizer.prices[a], 1>>), One), Zero)]
            port == RSum([a \in SizerAssets |->
                             RMul(IF first THEN Zero ELSE sizer.raw[a], returns[a])],
                         SizerAssets)
            port_win == LastN(Append(IF first THEN <<>> ELSE sizer.port_win, port), ROLL)
            spy_win == LastN(Append(IF first THEN <<>> ELSE sizer.spy_win,
                                    returns["SPY"]), ROLL)
            daily_var == RollingVar(port_win)
            spy_var == RollingVar(spy_win)
            effective_var == FillNa(daily_var, spy_var)
            scaler2 == VolScaler2(effective_var)
            equity == RMul(IF first THEN One ELSE sizer.equity, RAdd(One, port))
            cummax == IF first THEN equity ELSE RMax(sizer.cummax, equity)
            drawdown == RSub(RDiv(equity, cummax), One)
            crash == IF RLe(drawdown, DD_CRASH) THEN 1 ELSE 0
            crash_win == LastN(Append(IF first THEN <<>> ELSE sizer.crash_win, crash),
                               COOLDOWN)
            crash_all == Append(IF first THEN <<>> ELSE sizer.crash_all, crash)
            cooldown == Cooldown(crash_win)
            dd_scaler == RMul(DdScaler(drawdown), <<1 - cooldown, 1>>)
            final2 == RMul(scaler2, Sq(dd_scaler))
        IN  sizer' = [phase |-> "day", t |-> sizer.t + 1, crash_all |-> crash_all,
                      prices |-> prices, raw |-> raw,
                      port_win |-> port_win, spy_win |-> spy_win,
                      effective_var |-> effective_var, scaler2 |-> scaler2,
                      equity |-> equity, cummax |-> cummax, drawdown |-> drawdown,
                      crash_win |-> crash_win, cooldown |-> cooldown,
                      dd_scaler |-> dd_scaler, final2 |-> final2,
                      scaled2 |-> [a \in SizerAssets |-> RMul(SSq(raw[a]), final2)]]
    /\ UNCHANGED <<pairs, mom, blend, stats, bt, est, strat, ts, load>>

InitSizer ==
    /\ SizerInit
    /\ pairs = Idle /\ mom = Idle /\ blend = Idle /\ stats = Idle
    /\ bt = Idle /\ est = Idle /\ strat = Idle /\ ts = Idle /\ load = Idle

NextSizer == SizerDay

SpecSizer == InitSizer /\ [][NextSizer]_vars

\* C6: with NaN-free raw weights and prices the scaled panel has no NaN, the
\* volatility scale is at most 2.7 and the total multiplier lies in
\* [0, 2.7], also where the realised volatility is zero or undefined.
C6_NoNaNAndCap ==
    sizer.phase = "day" =>
        /\ \A a \in SizerAssets : ~IsNaN(sizer.scaled2[a])
        /\ RLe(sizer.scaler2, Sq(SCALER_CAP))
        /\ RGe(sizer.final2, Zero) /\ RLe(sizer.final2, Sq(SCALER_CAP))
        /\ \A a \in SizerAssets :
              RLe(RAbs(sizer.scaled2[a]), RMul(Sq(sizer.raw[a]), Sq(SCALER_CAP)))

\* a full window of identical portfolio returns (zero volatility) on a date
\* that carries a position: the scale falls back to 1.0
C6_Witness ==
    /\ sizer.phase = "day" /\ sizer.t >= ROLL
    /\ sizer.effective_var = Zero /\ sizer.scaler2 = One
    /\ sizer.raw["SPY"] # Zero /\ sizer.scaled2["SPY"] # Zero

\* a date on which the clip is active
C6_WitnessCap ==
    /\ sizer.phase = "day" /\ sizer.scaler2 = Sq(SCALER_CAP)

\* C15 as stated: the volatility scale is the target (6%) divided by the
\* annualised effective volatility (the rolling standard deviation times
\* sqrt(252)), clipped at 2.7, and 1.0 where that volatility is zero or
\* undefined; in squares, target^2 / (252 * variance) clipped at 2.7^2.
C15_Original ==
    sizer.phase = "day" =>
        sizer.scaler2 =
            (IF IsNaN(sizer.effective_var) \/ sizer.effective_var = Zero THEN One
             ELSE RMin(RDiv(Sq(TARGET_VOL), RMul(Q(TRADING_DAYS, 1), sizer.effective_var)),
                       Sq(SCALER_CAP)))

\* C12 as stated: a date whose drawdown is at or below -12% forces the
\* de-risking multiplier to 0 on each of the 5 dates after it.
C12_Original ==
    sizer.phase = "day" =>
        \A k \in 1..5 :
            (sizer.t - k >= 1 /\ sizer.crash_all[sizer.t - k] = 1) =>
                sizer.dd_scaler = Zero

\* C19: on a date whose drawdown is at or below -12% every scaled weight is
\* zero, and the de-risking multiplier of any date is 0 or above 0.65 (the
\* linear decay is applied only while the drawdown is above -12%).
C19_NoDeepDecay ==
    sizer.phase = "day" =>
        /\ RLe(sizer.drawdown, Q(-12, 100)) =>
              \A a \in SizerAssets : sizer.scaled2[a] = Zero
        /\ sizer.dd_scaler = Zero \/ RGt(sizer.dd_scaler, Q(65, 100))

\* a first breach of -12% with a position on: the linear decay alone would
\* leave a positive multiplier, the weight is zero
C19_Witness ==
    /\ sizer.phase = "day" /\ RLe(sizer.drawdown, Q(-12, 100))
    /\ RGt(DdScaler(sizer.drawdown), Zero)
    /\ sizer.crash_all = <<0, 1>>
    /\ sizer.raw["SPY"] # Zero /\ sizer.scaled2["SPY"] = Zero

-----------------------------------------------------------------------------
(* strategy/regime_strategy.py: _estimate_high_regime_prob                 *)
(* Dates are 1..N (position pos of the source is date pos + 1).  A feature *)
(* is carried as a sequence of rationals: its value where that is a        *)
(* rational, and for the realised-volatility features (logarithms, square  *)
(* roots) the price ratios the value is computed from.  The probability of *)
(* the fitted classifier (scikit-learn, not part of the repository) is     *)
(* carried as the term of its arguments: training features, training       *)
(* labels and the row it scores.                                           *)

VIX_LOW == 15
VIX_HIGH == 25
PCT_SHORT == 5
WINDOW_VOL == 20

\* min_train (252 in the source), shortened so that the classifier and
\* single-class paths occur within MaxDates dates
MinTrain == 2
MaxDates == 4

VixLevels == {12, 30}
SpyPrices == {1, 2}

\* classify_regime, signals/volatility.py lines 274-295
ClassifyRegime(v) ==
    IF v < VIX_LOW THEN LOW ELSE IF v < VIX_HIGH THEN MEDIUM ELSE HIGH

\* line 87: high_flag
HighFlag(vix) == [i \in DOMAIN vix |-> IF ClassifyRegime(vix[i]) = HIGH THEN 1 ELSE 0]

NUnique(y) == Cardinality({y[i] : i \in DOMAIN y})

\* mean of a 0/1 sequence
FlagMean(y) ==
    IF Len(y) = 0 THEN NaN ELSE Q(ISum(y, DOMAIN y), Len(y))

\* vix.pct_change(k) at date i
VixPct(vix, i, k) ==
    IF i <= k THEN <<NaN>> ELSE <<RSub(Q(vix[i], vix[i - k]), One)>>

\* (vix - vix.rolling(20).mean()) / vix.rolling(20).std(), line 73, as a
\* signed square; inf is replaced by NaN (line 81)
VixZ(vix, i) ==
    IF i < WINDOW_VOL THEN <<NaN>>
    ELSE LET win == [j \in 1..WINDOW_VOL |-> Q(vix[i - WINDOW_VOL + j], 1)]
             dev == RSub(Q(vix[i], 1), RowMean(win))
             z2 == RDiv(SSq(dev), RowVar(win))
         IN  IF IsFinite(z2) THEN <<z2>> ELSE <<NaN>>

\* vix.rank(pct=True), line 74: average rank over the whole series / N
VixPercentile(vix, i) ==
    LET less == Cardinality({j \in DOMAIN vix : vix[j] < vix[i]})
        same == Cardinality({j \in DOMAIN vix : vix[j] = vix[i]})
    IN  <<Q(2 * less + same + 1, 2 * Len(vix))>>

\* realised_vol(prices["SPY"]), signals/volatility.py lines 268-271: the
\* rolling std of 20 log-returns, carried as the 20 price ratios (Zero when
\* they are all equal, i.e. the std is 0)
Realised(spy, i) ==
    IF i < WINDOW_VOL + 1 THEN <<NaN>>
    ELSE LET ratios == [j \in 1..WINDOW_VOL |->
                           Q(spy[i - WINDOW_VOL + j], spy[i - WINDOW_VOL + j - 1])]
         IN  IF \A j \in 1..WINDOW_VOL : ratios[j] = ratios[1]
             THEN <<Zero>> ELSE ratios

\* spy_realised.diff(5), line 77
RealisedSlope(spy, i) ==
    IF i <= PCT_SHORT \/ Realised(spy, i) = <<NaN>>
       \/ Realised(spy, i - PCT_SHORT) = <<NaN>>
    THEN <<NaN>>
    ELSE Realised(spy, i) \o Realised(spy, i - PCT_SHORT)

\* vix / spy_realised.replace(0, np.nan), line 78
VolRatio(vix, spy, i) ==
    IF Realised(spy, i) = <<NaN>> \/ Realised(spy, i) = <<Zero>> THEN <<NaN>>
    ELSE <<Q(vix[i], 1)>> \o Realised(spy, i)

FeatureNames == 1..8

\* lines 70-79: column c of the feature matrix at date i, before the fill
FeatureRaw(vix, spy, c, i) ==
    CASE c = 1 -> <<Q(vix[i], 1)>>
      [] c = 2 -> VixPct(vix, i, PCT_SHORT)
      [] c = 3 -> VixPct(vix, i, WINDOW_VOL)
      [] c = 4 -> VixZ(vix, i)
      [] c = 5 -> VixPercentile(vix, i)
      [] c = 6 -> Realised(spy, i)
      [] c = 7 -> RealisedSlope(spy, i)
      [] c = 8 -> VolRatio(vix, spy, i)

RECURSIVE Feature(_, _, _, _)
\* line 82: features.ffill().fillna(0.0)
Feature(vix, spy, c, i) ==
    IF FeatureRaw(vix, spy, c, i) # <<NaN>> THEN FeatureRaw(vix, spy, c, i)
    ELSE IF i = 1 THEN <<Zero>>
    ELSE Feature(vix, spy, c, i - 1)

\* _feature_matrix, lines 64-83: the rows of dates lo..hi
FeatureRows(vix, spy, lo, hi) ==
    [k \in 1..(hi - lo + 1) |->
        [c \in FeatureNames |-> Feature(vix, spy, c, lo + k - 1)]]

ProbValue(r) ==
    [kind |-> "value", value |-> r, X_train |-> <<>>, y_train |-> <<>>, X_pred |-> <<>>]

\* lines 109-114: scaler and classifier fitted on (X_train, y_train), scoring
\* X_pred
ClassifierProb(X_train, y_train, X_pred) ==
    [kind |-> "clf", value |-> NaN,
     X_train |-> X_train, y_train |-> y_train, X_pred |-> X_pred]

\* the body of the walk-forward loop for date t = pos + 1, lines 96-114
WalkForward(vix, spy, t) ==
    LET pos == t - 1
        high_flag == HighFlag(vix)
    IN  IF pos < MinTrain
        THEN LET window == IF pos # 0 THEN SubSeq(high_flag, 1, pos)
                           ELSE SubSeq(high_flag, 1, 1)
                 baseline == FlagMean(window)
             IN  ProbValue(IF IsFinite(baseline) THEN baseline ELSE Zero)
        ELSE LET y_train == SubSeq(high_flag, pos - MinTrain + 1, pos)
             IN  IF NUnique(y_train) < 2
                 THEN ProbValue(Q(y_train[Len(y_train)], 1))
                 ELSE ClassifierProb(FeatureRows(vix, spy, pos - MinTrain + 1, pos),
                                     y_train,
                                     FeatureRows(vix, spy, pos + 1, pos + 1))

\* _estimate_high_regime_prob, lines 85-117 (no estimate of the loop is NaN,
\* so the final ffill / fillna changes nothing; clip(0, 1) keeps a
\* probability)
EstimateHighRegimeProb(vix, spy, has_sklearn) ==
    LET high_flag == HighFlag(vix)
    IN  IF ~has_sklearn \/ NUnique(high_flag) < 2
        THEN [t \in DOMAIN vix |-> ProbValue(Q(high_flag[t], 1))]
        ELSE [t \in DOMAIN vix |->
                 LET e == WalkForward(vix, spy, t)
                 IN  IF e.kind = "value"
                     THEN ProbValue(RClip(e.value, Zero, One)) ELSE e]

\* two runs whose inputs differ in one value (a VIX level or a benchmark
\* price) on date d
EstInit ==
    \E N \in 1..MaxDates :
      \E vix \in [1..N -> VixLevels], spy \in [1..N -> SpyPrices],
         d \in 1..N, what \in {"vix", "spy"}, has_sklearn \in BOOLEAN :
        \E v \in (IF what = "vix" THEN VixLevels \ {vix[d]} ELSE SpyPrices \ {spy[d]}) :
          est = [phase |-> "inputs", has_sklearn |-> has_sklearn, d |-> d,
                 vix |-> vix, spy |-> spy,
                 vix2 |-> IF what = "vix" THEN [vix EXCEPT ![d] = v] ELSE vix,
                 spy2 |-> IF what = "spy" THEN [spy EXCEPT ![d] = v] ELSE spy]

\* __init__ line 54 on both inputs
Estimate ==
    /\ est.phase = "inputs"
    /\ est' = [est EXCEPT !.phase = "done"] @@
              [prob_high |-> EstimateHighRegimeProb(est.vix, est.spy, est.has_sklearn),
               prob_high2 |-> EstimateHighRegimeProb(est.vix2, est.spy2, est.has_sklearn)]
    /\ UNCHANGED <<pairs, mom, blend, sizer, stats, bt, strat, ts, load>>

InitEst ==
    /\ EstInit
    /\ pairs = Idle /\ mom = Idle /\ blend = Idle /\ sizer = Idle
    /\ stats = Idle /\ bt = Idle /\ strat = Idle /\ ts = Idle /\ load = Idle

NextEst == Estimate

SpecEst == InitEst /\ [][NextEst]_vars

\* C1 as stated: the probability at date t uses only data of dates strictly
\* before t, i.e. changing a VIX level or benchmark price at a date d >= t
\* leaves the probability at t unchanged.
C1_Original ==
    est.phase = "done" =>
        \A t \in DOMAIN est.prob_high :
            est.d >= t => est.prob_high[t] = est.prob_high2[t]

\* C14 as stated: below the minimum history (pos = 0 included) the estimate
\* is the mean of the provisional High label over the dates strictly before
\* pos and does not change with the label of pos or of a later date; from
\* the minimum history on, a single-class training window gives the label of
\* the last date before pos.
C14_Original ==
    est.phase = "done" =>
        \A t \in DOMAIN est.prob_high :
            LET pos == t - 1
                flag == HighFlag(est.vix)
            IN  /\ (pos < MinTrain /\ pos >= 1) =>
                      est.prob_high[t] = ProbValue(FlagMean(SubSeq(flag, 1, pos)))
                /\ (pos < MinTrain /\ est.d >= t) =>
                      est.prob_high[t] = est.prob_high2[t]
                /\ (pos >= MinTrain
                    /\ NUnique(SubSeq(flag, pos - MinTrain + 1, pos)) < 2) =>
                      est.prob_high[t] = ProbValue(Q(flag[pos], 1))

-----------------------------------------------------------------------------
(* signals/timeseries.py, signals/defensive.py and                         *)
(* RegimeAwareStrategy.positions, end to end                               *)
(* positions() is computed one date at a time.  What a date reads from the *)
(* price history through long windows is drawn as an input of the date:    *)
(* the 126-day returns, the pair's z-score, the signs of the 21-, 63- and  *)
(* 126-day log-returns, the three ratios intensity / rolling median, the   *)
(* 20-day effective volatility and the drawdown of the raw portfolio.      *)
(* Everything computed from them is computed as in the source.             *)

TICKERS == <<"SPY", "QQQ", "TLT", "GLD">>
AllTickers == {"SPY", "QQQ", "TLT", "GLD"}

StratUniverses == {{"SPY", "QQQ", "TLT", "GLD"}, {"SPY", "QQQ", "TLT"}, {"SPY"}}

MaxStratDays == 2

\* the columns of the price panel, in panel order
ColSeq(cols) == SelectSeq(TICKERS, LAMBDA c : c \in cols)

ColIndex(cols, c) == CHOOSE i \in DOMAIN ColSeq(cols) : ColSeq(cols)[i] = c

Row4(s, q, t, g) == [c \in AllTickers |->
    IF c = "SPY" THEN s ELSE IF c = "QQQ" THEN q ELSE IF c = "TLT" THEN t ELSE g]

\* weights from the signals without the cross-sectional demeaning
TsWeightsNoDemean(sign_row, cols) ==
    LET signal == [c \in cols |-> IF sign_row[c] = Zero THEN NaN ELSE sign_row[c]]
        ok == {c \in cols : ~IsNaN(signal[c])}
        gross == RSum([c \in cols |-> RAbs(signal[c])], ok)
    IN  [c \in cols |-> FillNa(RDiv(signal[c], gross), Zero)]

\* _ts_weights on one date, lines 26-30, from the row of np.sign(log_rets)
TsWeights(sign_row, cols) ==
    LET signal == [c \in cols |-> IF sign_row[c] = Zero THEN NaN ELSE sign_row[c]]
        mean == RowMean(signal)
        demeaned == [c \in cols |-> RSub(signal[c], mean)]
        ok == {c \in cols : ~IsNaN(demeaned[c])}
        gross == RSum([c \in cols |-> RAbs(demeaned[c])], ok)
    IN  [c \in cols |-> FillNa(RDiv(demeaned[c], gross), Zero)]

\* timeseries_momentum on one date, lines 60-82: the mean of the components
TimeseriesMomentum(sign_rows, cols) ==
    LET comp == [k \in DOMAIN sign_rows |-> TsWeights(sign_rows[k], cols)]
    IN  [c \in cols |->
            FillNa(RDiv(RSum([k \in DOMAIN sign_rows |-> comp[k][c]], DOMAIN sign_rows),
                        <<Len(sign_rows), 1>>), Zero)]

DEFENSIVE_ALLOC == [TLT |-> Q(7, 10), GLD |-> Q(3, 10)]

\* _normalise_alloc, signals/defensive.py lines 16-25
NormaliseAlloc(alloc, available) ==
    LET filtered == {k \in DOMAIN alloc : k \in available /\ RGt(alloc[k], Zero)}
        total == RSum(alloc, filtered)
    IN  IF RLe(total, Zero) THEN [k \in available |-> Zero]
        ELSE [k \in filtered |-> RDiv(alloc[k], total)]

\* defensive_overlay on one date, lines 39-46
DefensiveOverlay(cols) ==
    LET normalised == NormaliseAlloc(DEFENSIVE_ALLOC, cols)
    IN  [c \in cols |-> IF c \in DOMAIN normalised THEN normalised[c] ELSE Zero]

\* the momentum sleeve's row: momentum_positions(momentum_zscores(prices))
MomRow(six_m_ret, cols) ==
    LET seq == [i \in DOMAIN ColSeq(cols) |-> six_m_ret[ColSeq(cols)[i]]]
        pos == MomentumPositions(MomentumZscores(seq))
    IN  [c \in cols |-> pos[ColIndex(cols, c)]]

\* a sleeve scaler that leaves an undefined ratio undefined
SleeveScalerNoFill(ratio, lo, hi) == RClip(ratio, lo, hi)

\* lines 135-145: (intensity / rolling median).clip(lo, hi).fillna(1.0)
SleeveScaler(ratio, lo, hi) == FillNa(RClip(ratio, lo, hi), One)

\* line 146
DefScaler(prob_high) ==
    RClip(RAdd(Q(85, 100), RMul(Q(6, 10), prob_high)), Q(1, 2), Q(16, 10))

\* line 132: confidence.clip(lower=0.2)
TransitionScaler(confidence) == RMax(confidence, Q(2, 10))

\* lines 152-158: the raw weight row of the date from the mix, the scalers
\* and the sleeves' rows
CombinedRow(cols, mix, transition_scaler, scaler, pos) ==
    [c \in cols |->
        LET mom_component == RMul(RMul(mix.momentum, scaler.momentum), pos.momentum[c])
            pair_component == RMul(RMul(mix.pairs, scaler.pairs), Q(pos.pairs[c], 100))
            ts_component == RMul(RMul(mix.timeseries, scaler.timeseries), pos.timeseries[c])
            defensive_component ==
                RMul(RMul(mix.defensive, scaler.defensive), pos.defensive[c])
        IN  RMul(transition_scaler, RAdd(RAdd(mom_component, pair_component),
                                         RAdd(ts_component, defensive_component)))]

\* what a date can read from the price history: the 126-day returns, the
\* z-score of the pair SPY/QQQ, and np.sign of the three log-returns
MarketRows ==
    { [ret |-> Row4(NaN, NaN, NaN, NaN), z |-> ZNaN,
       sign |-> <<Row4(NaN, NaN, NaN, NaN), Row4(NaN, NaN, NaN, NaN),
                  Row4(NaN, NaN, NaN, NaN)>>],
      [ret |-> Row4(One, Q(1, 2), Q(-1, 2), Zero), z |-> -200,
       sign |-> <<Row4(One, One, Q(-1, 1), Q(-1, 1)), Row4(One, One, Q(-1, 1), Q(-1, 1)),
                  Row4(One, One, Q(-1, 1), Q(-1, 1))>>],
      [ret |-> Row4(Q(-1, 2), One, One, Q(1, 2)), z |-> 200,
       sign |-> <<Row4(Q(-1, 1), One, One, Zero), Row4(One, One, One, One),
                  Row4(One, Q(-1, 1), One, NaN)>>],
      [ret |-> Row4(Zero, Zero, Zero, Zero), z |-> 0,
       sign |-> <<Row4(Q(-1, 1), Q(-1, 1), One, Q(-1, 1)), Row4(Zero, Zero, Zero, Zero),
                  Row4(Q(-1, 1), One, Q(-1, 1), One)>>] }

\* the ratios intensity / rolling median of the three sleeves (0/0 is NaN,
\* x/0 is inf), the effective volatility and the drawdown of a date
RiskRows ==
    { [mom |-> NaN, pair |-> NaN, ts |-> NaN, vol |-> NaN, dd |-> Zero],
      [mom |-> Inf, pair |-> Inf, ts |-> Inf, vol |-> Q(1, 1000), dd |-> Zero],
      [mom |-> Zero, pair |-> One, ts |-> Q(1, 2), vol |-> Zero, dd |-> Q(-1, 10)],
      [mom |-> Q(2, 1), pair |-> Zero, ts |-> Inf, vol |-> Q(3, 100), dd |-> Q(-1, 2)],
      [mom |-> One, pair |-> Q(1, 2), ts |-> Zero, vol |-> Q(1, 5), dd |-> Q(-3, 100)] }

\* __init__, lines 44-48: the sleeves are computed once from the prices; the
\* rows a date can show, for every universe and market row
SleeveRows ==
    [cols \in StratUniverses |->
        [m \in MarketRows |->
            [momentum |-> MomRow(m.ret, cols),
             timeseries |-> TimeseriesMomentum(m.sign, cols),
             defensive |-> DefensiveOverlay(cols)]]]

\* lines 135-145: the three sleeve scalers of a date
ScalerRows ==
    [r \in RiskRows |->
        [momentum |-> SleeveScaler(r.mom, Q(3, 10), Q(15, 10)),
         pairs |-> SleeveScaler(r.pair, Q(3, 10), Q(16, 10)),
         timeseries |-> SleeveScaler(r.ts, Q(4, 10), Q(14, 10))]]

StratProbs == {Zero, Q(1, 2), One}

StratInit ==
    \E cols \in StratUniverses : strat = [phase |-> "start", t |-> 0, cols |-> cols]

\* One date of positions(), lines 129-165, with scale_weights applied to it.
StratDay ==
    /\ strat.phase \in {"start", "day"}
    /\ strat.t < MaxStratDays
    /\ \E raw \in StratProbs, m \in MarketRows, r \in RiskRows :
        LET first == strat.phase = "start"
            cols == strat.cols
            p == RClip(Ewm(IF first THEN Zero ELSE strat.prob_high, raw, first),
                       Zero, One)
            conf == Confidence(p)
            regime == RegimeOf(raw)
            mix == RegimeMix(regime, p, conf)
            pair_state == [i \in DOMAIN PAIRS |->
                              IF PairTraded(cols, i)
                              THEN PairStep(IF first THEN 0 ELSE strat.pair_state[i],
                                            IF i = 1 THEN m.z ELSE ZNaN)
                              ELSE 0]
            pos == [momentum |-> SleeveRows[cols][m].momentum,
                    pairs |-> PairsPosRow(cols, pair_state),
                    timeseries |-> SleeveRows[cols][m].timeseries,
                    defensive |-> SleeveRows[cols][m].defensive]
            sleeve_scaler == [momentum |-> ScalerRows[r].momentum,
                              pairs |-> ScalerRows[r].pairs,
                              timeseries |-> ScalerRows[r].timeseries,
                              defensive |-> DefScaler(p)]
            weights == CombinedRow(cols, mix, TransitionScaler(conf), sleeve_scaler, pos)
            scaler == VolScaler(r.vol)
            crash == IF RLe(r.dd, DD_CRASH) THEN 1 ELSE 0
            crash_win == LastN(Append(IF first THEN <<>> ELSE strat.crash_win, crash),
                               COOLDOWN)
            cooldown == Cooldown(crash_win)
            dd_scaler == RMul(DdScaler(r.dd), <<1 - cooldown, 1>>)
            final_scaler == RMul(scaler, dd_scaler)
        IN  strat' = [phase |-> "day", t |-> strat.t + 1, cols |-> cols,
                      prob_high |-> p, regime |-> regime,
                      pair_state |-> pair_state, crash_win |-> crash_win,
                      weights |-> weights, scaler |-> scaler,
                      final_scaler |-> final_scaler,
                      scaled |-> [c \in cols |-> RMul(weights[c], final_scaler)]]
    /\ UNCHANGED <<pairs, mom, blend, sizer, stats, bt, est, ts, load>>

InitStrat ==
    /\ StratInit
    /\ pairs = Idle /\ mom = Idle /\ blend = Idle /\ sizer = Idle
    /\ stats = Idle /\ bt = Idle /\ est = Idle /\ ts = Idle /\ load = Idle

NextStrat == StratDay

SpecStrat == InitStrat /\ [][NextStrat]_vars

\* C9: on every date positions() returns one weight per column of the price
\* panel, none of them NaN and each of absolute value below 5.0, whatever
\* the probability, the sleeve inputs, the volatility and the drawdown.
C9_ShapeNoNaNBounded ==
    strat.phase = "day" =>
        /\ DOMAIN strat.scaled = strat.cols
        /\ \A c \in strat.cols :
              /\ ~IsNaN(strat.scaled[c])
              /\ RLt(RAbs(strat.scaled[c]), Q(5, 1))

\* a high-probability date at the volatility cap: the defensive sleeve sits
\* in TLT alone and its scaled weight exceeds 2
C9_Witness ==
    /\ strat.phase = "day" /\ strat.cols = {"SPY", "QQQ", "TLT"}
    /\ strat.regime = HIGH /\ strat.scaler = SCALER_CAP
    /\ RGt(strat.scaled["TLT"], Q(2, 1))

-----------------------------------------------------------------------------
(* signals/timeseries.py: timeseries_momentum on one date                  *)
(* The columns are 1..n.  The input of a lookback is its row of            *)
(* np.sign(log_rets): 1, -1, 0 (unchanged price) or NaN (warm-up).         *)

DEFAULT_LOOKBACKS == <<21, 63, 126>>
MaxTsAssets == 3

SignValues == {One, Q(-1, 1), Zero, NaN}

\* rows a longer lookback can show next to the row of the shortest one: still
\* in warm-up, the same signs, the opposite signs, or the signs one column on
SignVariants(row) ==
    LET n == Len(row)
    IN  { [c \in 1..n |-> NaN], row, [c \in 1..n |-> RNeg(row[c])],
          [c \in 1..n |-> row[(c % n) + 1]] }

TsInit ==
    \E n \in 1..MaxTsAssets :
      \E row \in [1..n -> SignValues] :
        \E row2 \in SignVariants(row), row3 \in SignVariants(row) :
          ts = [phase |-> "signals", n |-> n, sign |-> <<row, row2, row3>>]

\* timeseries_momentum(prices, return_components=True) on the date
TsMomentum ==
    /\ ts.phase = "signals"
    /\ ts' = [phase |-> "done", n |-> ts.n, sign |-> ts.sign,
              components |-> [k \in DOMAIN DEFAULT_LOOKBACKS |->
                                 TsWeights(ts.sign[k], 1..ts.n)],
              combined |-> TimeseriesMomentum(ts.sign, 1..ts.n)]
    /\ UNCHANGED <<pairs, mom, blend, sizer, stats, bt, est, strat, load>>

InitTs ==
    /\ TsInit
    /\ pairs = Idle /\ mom = Idle /\ blend = Idle /\ sizer = Idle
    /\ stats = Idle /\ bt = Idle /\ est = Idle /\ strat = Idle /\ load = Idle

NextTs == TsMomentum

SpecTs == InitTs /\ [][NextTs]_vars

\* C18: for every lookback the weights sum to 0 and their absolute values to
\* 1, or all of them are 0 when no asset has a defined signal or all defined
\* signals have the same sign; the combined weights are the average of the
\* per-lookback weights and sum to 0.
C18_NetZeroUnitGross ==
    ts.phase = "done" =>
        /\ \A k \in DOMAIN ts.components :
              LET w == ts.components[k]
                  defined == {c \in 1..ts.n : ts.sign[k][c] \in {One, Q(-1, 1)}}
                  one_sign == \A c, e \in defined : ts.sign[k][c] = ts.sign[k][e]
              IN  IF one_sign
                  THEN \A c \in 1..ts.n : w[c] = Zero
                  ELSE /\ RSum(w, 1..ts.n) = Zero
                       /\ RSum([c \in 1..ts.n |-> RAbs(w[c])], 1..ts.n) = One
        /\ \A c \in 1..ts.n :
              ts.combined[c] =
                 RDiv(RSum([k \in DOMAIN ts.components |-> ts.components[k][c]],
                           DOMAIN ts.components), Q(Len(ts.components), 1))
        /\ RSum(ts.combined, 1..ts.n) = Zero

\* three assets, one of them without a signal on the shortest lookback (its
\* price is unchanged) and the longest lookback still in warm-up
C18_Witness ==
    /\ ts.phase = "done" /\ ts.n = 3
    /\ ts.sign[1] = <<One, Zero, Q(-1, 1)>>
    /\ ts.components[1] = <<Q(1, 2), Zero, Q(-1, 2)>>
    /\ ts.sign[3] = <<NaN, NaN, NaN>> /\ ts.components[3] = <<Zero, Zero, Zero>>
    /\ ts.sign[2] = <<Zero, Q(-1, 1), One>>
    /\ ts.combined = <<Q(1, 6), Q(-1, 6), Zero>>

-----------------------------------------------------------------------------
(* signals/volatility.py: load_prices_and_vix                              *)
(* One call, step by step: the cache lookup, then one iteration of the     *)
(* loader loop per step.  Whether a source succeeds, and what the write to *)
(* the cache does, is decided by the environment.                          *)

\* the cache as _load_from_cache finds it: no cache directory (DATA_DIR is
\* None), a file missing, unreadable, empty or without common dates, or valid
CacheStates == {"nodir", "missing", "unreadable", "empty", "disjoint", "valid"}

\* _load_from_cache, lines 51-79: the panel, or None
LoadFromCache(cache) == IF cache = "valid" THEN "cache" ELSE "None"

\* a loader list that tries the per-ticker download before the bulk one
LoadersIndividualFirst(prefer_download, has_yf) ==
    (IF prefer_download /\ has_yf THEN <<"individual", "bulk">> ELSE <<>>) \o <<"mock">>

\* lines 112-118: the loaders in the order they are tried
Loaders(prefer_download, has_yf) ==
    (IF prefer_download /\ has_yf THEN <<"bulk", "individual">> ELSE <<>>) \o <<"mock">>

\* what _save_to_cache can do, lines 82-92: return at once without a cache
\* directory; write both files; or hit OSError on the first or on the second
\* file, which is swallowed
SaveOutcomes(cache) ==
    IF cache = "nodir" THEN {"skipped"} ELSE {"saved", "oserror", "partial"}

\* the cache after the call of _save_to_cache
CacheAfterSave(cache, outcome) ==
    IF outcome = "saved" THEN "valid"
    ELSE IF outcome = "partial" THEN "mixed"
    ELSE cache

LoadInit ==
    \E force_refresh \in BOOLEAN, prefer_download \in BOOLEAN, has_yf \in BOOLEAN,
       cache \in CacheStates :
        load = [phase |-> "called", force_refresh |-> force_refresh,
                prefer_download |-> prefer_download, has_yf |-> has_yf,
                cache |-> cache, tried |-> <<>>, failed |-> <<>>,
                saves |-> <<>>, result |-> "none"]

\* lines 107-110: the cache lookup, unless force_refresh
LoadCache ==
    /\ load.phase = "called"
    /\ IF load.force_refresh
       THEN load' = [load EXCEPT !.phase = "loop"]
       ELSE IF LoadFromCache(load.cache) # "None"
       THEN load' = [load EXCEPT !.phase = "returned", !.tried = <<"cache">>,
                                 !.result = "cache"]
       ELSE load' = [load EXCEPT !.phase = "loop", !.tried = <<"cache">>,
                                 !.failed = <<"cache">>]
    /\ UNCHANGED <<pairs, mom, blend, sizer, stats, bt, est, strat, ts>>

\* the loader the loop is about to call
NextLoader ==
    LET loaders == Loaders(load.prefer_download, load.has_yf)
        done == Len(SelectSeq(load.tried, LAMBDA x : x # "cache"))
    IN  IF done < Len(loaders) THEN loaders[done + 1] ELSE "none"

\* lines 122-126: a loader that succeeds; the result is handed to
\* _save_to_cache and returned
LoadSucceed ==
    /\ load.phase = "loop" /\ NextLoader # "none"
    /\ \E outcome \in SaveOutcomes(load.cache) :
        load' = [load EXCEPT !.phase = "returned",
                             !.tried = Append(@, NextLoader),
                             !.saves = Append(@, outcome),
                             !.cache = CacheAfterSave(@, outcome),
                             !.result = NextLoader]
    /\ UNCHANGED <<pairs, mom, blend, sizer, stats, bt, est, strat, ts>>

\* lines 127-133: a loader that raises; the loop goes on
LoadFail ==
    /\ load.phase = "loop" /\ NextLoader # "none"
    /\ load' = [load EXCEPT !.tried = Append(@, NextLoader),
                            !.failed = Append(@, NextLoader)]
    /\ UNCHANGED <<pairs, mom, blend, sizer, stats, bt, est, strat, ts>>

\* line 135: the loop ran out of loaders
LoadRaise ==
    /\ load.phase = "loop" /\ NextLoader = "none"
    /\ load' = [load EXCEPT !.phase = "raised", !.result = "RuntimeError"]
    /\ UNCHANGED <<pairs, mom, blend, sizer, stats, bt, est, strat, ts>>

InitLoad ==
    /\ LoadInit
    /\ pairs = Idle /\ mom = Idle /\ blend = Idle /\ sizer = Idle
    /\ stats = Idle /\ bt = Idle /\ est = Idle /\ strat = Idle /\ ts = Idle

NextLoad == LoadCache \/ LoadSucceed \/ LoadFail \/ LoadRaise

SpecLoad == InitLoad /\ [][NextLoad]_vars

\* the sources in the order the claim gives them, for the flags of the call
LoadOrder ==
    (IF load.force_refresh THEN <<>> ELSE <<"cache">>)
    \o (IF load.prefer_download /\ load.has_yf THEN <<"bulk">> ELSE <<>>)
    \o (IF load.prefer_download /\ load.has_yf THEN <<"individual">> ELSE <<>>)
    \o <<"mock">>

\* order, first success, cache hit and RuntimeError, as C16 states them
LoadOrderHolds ==
    /\ Len(load.tried) <= Len(LoadOrder)
    /\ load.tried = SubSeq(LoadOrder, 1, Len(load.tried))
    /\ load.phase = "returned" =>
          /\ load.tried # <<>> /\ load.result = load.tried[Len(load.tried)]
          /\ load.failed = SubSeq(load.tried, 1, Len(load.tried) - 1)
    /\ (load.phase = "returned" /\ load.result = "cache") =>
          load.tried = <<"cache">> /\ load.saves = <<>>
    /\ load.phase = "raised" =>
          load.tried = LoadOrder /\ load.failed = load.tried
    /\ load.phase \in {"called", "loop"} => load.failed = load.tried

=============================================================================
